---- MODULE Spec2Model ----
(***************************************************************************)
(* A model of backup_script.py: one run of the script (archive creation,   *)
(* upload through rclone, history logging, webhook notification, retention *)
(* cleanup) followed by further invocations of delete_old_files on the     *)
(* same backup root.                                                       *)
(*                                                                         *)
(* Time is counted in whole seconds.  The script compares                  *)
(*     (now_ts - st_mtime) / (3600 * 24) > max_days                        *)
(* which, for the exact quotient, is (now_ts - st_mtime) > max_days*86400; *)
(* the model compares in that form.                                        *)
(***************************************************************************)
EXTENDS Integers, Sequences, FiniteSets

VARIABLES
    RETENTION_DAYS,    \* int(os.getenv("RETENTION_DAYS", 7))
    RETENTION_WEEKS,   \* int(os.getenv("RETENTION_WEEKS", 4))
    RETENTION_MONTHS,  \* int(os.getenv("RETENTION_MONTHS", 3))
    NOTIFY,            \* os.getenv("NOTIFY", "true").lower() == "true"
    pc,                \* the statement the script is at
    error,             \* the uncaught exception that ended the process, or "none"
    upload_status,     \* exit code of rclone in this process, NotRun before the upload
    notified,          \* curl was invoked with the payload
    log,               \* the lines the current call's process appended to LOG_FILE
    steps,             \* the steps of the run executed so far, in order
    files,             \* every file that was ever under BACKUP_DIR, in walk order
    present,           \* the indices of files that still exist
    max_days,          \* argument of delete_old_files
    now_ts,            \* clock reading of the current delete_old_files call
    walk,              \* the files enumerated by os.walk for the current call
    pos,               \* position of the loop in walk
    run,               \* number of delete_old_files calls started
    failed,            \* files whose unlink (or Deleted log line) raised in this call
    start_present,     \* present at the start of the current call
    prev_end,          \* how the previous call ended
    prev_now_ts        \* now_ts of the previous call

vars == <<RETENTION_DAYS, RETENTION_WEEKS, RETENTION_MONTHS, NOTIFY, pc, error,
          upload_status, notified, log, steps, files, present, max_days, now_ts,
          walk, pos, run, failed, start_present, prev_end, prev_now_ts>>

config == <<RETENTION_DAYS, RETENTION_WEEKS, RETENTION_MONTHS, NOTIFY>>
mainVars == <<upload_status, notified, steps>>
scanVars == <<max_days, now_ts, walk, pos, run, failed, start_present,
              prev_end, prev_now_ts>>

----------------------------------------------------------------------------
(* Bounds of the model *)

\* pre-existing files under BACKUP_DIR in a generated population
MaxFiles == 2
\* calls of delete_old_files on the same root
MaxRuns == 2
\* largest window the monotonicity of the cutoff is examined up to
MaxWindow == 8

(* Program constants *)

DefaultDays == 7
DefaultWeeks == 4
DefaultMonths == 3
SecPerDay == 3600 * 24
ArchiveSuffix == ".zip"

\* The clock reading of the first delete_old_files call (an arbitrary instant).
NowTs == 400 * SecPerDay
NotRun == 0 - 1

----------------------------------------------------------------------------
(* Pure helpers *)

Max2(a, b) == IF a >= b THEN a ELSE b

Min2(a, b) == IF a <= b THEN a ELSE b

\* a mutation: the monthly window forgotten
MaxAgeNoMonths(d, w, m) == Max2(d, w * 7)

\* a mutation: min in place of max
MaxAgeMin(d, w, m) == Min2(Min2(d, w * 7), m * 30)

\* max(RETENTION_DAYS, RETENTION_WEEKS * 7, RETENTION_MONTHS * 30)
MaxAge(d, w, m) == Max2(Max2(d, w * 7), m * 30)

max_age_days == MaxAge(RETENTION_DAYS, RETENTION_WEEKS, RETENTION_MONTHS)

status_text == IF upload_status = 0 THEN "Success" ELSE "Failed"

\* a mutation: the suffix test dropped
IsArchiveAny(f) == TRUE

\* file_path.suffix == ".zip"
IsArchive(f) == f.suffix = ArchiveSuffix

\* a mutation: >= in place of >
IsOldGe(f) == (now_ts - f.st_mtime) >= max_days * SecPerDay

\* a mutation: the division by 3600 * 24 forgotten
IsOldNoDiv(f) == (now_ts - f.st_mtime) > max_days

\* age_days > max_days, age_days = (now_ts - st_mtime) / (3600 * 24)
IsOld(f) == (now_ts - f.st_mtime) > max_days * SecPerDay

\* the files os.walk lists: those that exist, in walk order
RECURSIVE Enumerate(_, _)
Enumerate(i, n) ==
    IF i > n THEN <<>>
    ELSE (IF i \in present THEN <<i>> ELSE <<>>) \o Enumerate(i + 1, n)

InsertAt(s, p, x) == SubSeq(s, 1, p - 1) \o <<x>> \o SubSeq(s, p, Len(s))

----------------------------------------------------------------------------
(* Inputs *)

\* <<RETENTION_DAYS, RETENTION_WEEKS, RETENTION_MONTHS>>: nothing retained, one
\* day, the daily, the weekly and the monthly window deciding the cutoff
Windows == { <<0, 0, 0>>, <<1, 0, 0>>, <<DefaultDays, 0, 0>>,
             <<DefaultDays, DefaultWeeks, 0>>,
             <<DefaultDays, DefaultWeeks, DefaultMonths>> }
ExitCodes == {0, 1}
\* seconds from the creation of the archive to the retention scan
Elapsed == {1, SecPerDay - 1, SecPerDay + 1}
\* seconds the clock advances between two calls of delete_old_files
ClockAdvance == {0, 1}

File(sfx, age) == [suffix |-> sfx, st_mtime |-> NowTs - age, own |-> FALSE]

\* files at the cutoff c, one second over it, and a non-archive over it
Kinds(c) == { File(ArchiveSuffix, c * SecPerDay),
              File(ArchiveSuffix, c * SecPerDay + 1),
              File(".log", c * SecPerDay + 1) }

RECURSIVE SeqsUpTo(_, _)
SeqsUpTo(S, n) ==
    IF n = 0 THEN {<<>>}
    ELSE LET R == SeqsUpTo(S, n - 1)
         IN R \cup {Append(s, x) : s \in {r \in R : Len(r) = n - 1}, x \in S}

ScenarioFiles == << File(ArchiveSuffix, 1 * SecPerDay),
                    File(ArchiveSuffix, 8 * SecPerDay),
                    File(ArchiveSuffix, 35 * SecPerDay),
                    File(ArchiveSuffix, 100 * SecPerDay) >>

Defaults(d, w, m) == d = DefaultDays /\ w = DefaultWeeks /\ m = DefaultMonths

\* the generated populations and, under the default windows, the 1/8/35/100 one
Populations(d, w, m) ==
    SeqsUpTo(Kinds(MaxAge(d, w, m)), MaxFiles)
        \cup (IF Defaults(d, w, m) THEN {ScenarioFiles} ELSE {})

----------------------------------------------------------------------------
(* The run *)

Init ==
    /\ \E win \in Windows :
          /\ RETENTION_DAYS = win[1]
          /\ RETENTION_WEEKS = win[2]
          /\ RETENTION_MONTHS = win[3]
    /\ NOTIFY \in BOOLEAN
    /\ files \in Populations(RETENTION_DAYS, RETENTION_WEEKS, RETENTION_MONTHS)
    /\ present = 1 .. Len(files)
    /\ pc = "archive"
    /\ error = "none"
    /\ upload_status = NotRun
    /\ notified = FALSE
    /\ log = <<>>
    /\ steps = <<>>
    /\ max_days = 0
    /\ now_ts = 0
    /\ walk = <<>>
    /\ pos = 1
    /\ run = 0
    /\ failed = {}
    /\ start_present = {}
    /\ prev_end = "none"
    /\ prev_now_ts = 0

\* os.makedirs and the zipfile block succeed: zip_path exists, written e
\* seconds before the retention scan will read the clock; os.walk will list it
\* before or after the files that were there
CreateArchive ==
    /\ pc = "archive"
    /\ \E e \in Elapsed, p \in {1, Len(files) + 1} :
          files' = InsertAt(files, p,
                     [suffix |-> ArchiveSuffix, st_mtime |-> NowTs - e, own |-> TRUE])
    /\ present' = 1 .. Len(files')
    /\ steps' = Append(steps, "archive")
    /\ pc' = "upload"
    /\ UNCHANGED <<config, error, upload_status, notified, log, scanVars>>

\* os.makedirs or the zipfile block raises: nothing catches it
ArchiveFails ==
    /\ pc = "archive"
    /\ pc' = "crashed"
    /\ error' = "archive"
    /\ UNCHANGED <<config, mainVars, log, files, present, scanVars>>

\* upload_status = subprocess.call(upload_cmd, shell=True)
Upload ==
    /\ pc = "upload"
    /\ upload_status' \in ExitCodes
    /\ steps' = Append(steps, "upload")
    /\ pc' = "log"
    /\ UNCHANGED <<config, error, notified, log, files, present, scanVars>>

\* with open(LOG_FILE, "a") as log: log.write(log_entry)
WriteLog ==
    /\ pc = "log"
    /\ log' = Append(log, [kind |-> "Backup", upload |-> status_text])
    /\ steps' = Append(steps, "log")
    /\ pc' = "notify"
    /\ UNCHANGED <<config, error, upload_status, notified, files, present, scanVars>>

\* the open or the write raises; the statement is in no try block
WriteLogFails ==
    /\ pc = "log"
    /\ pc' = "crashed"
    /\ error' = "log"
    /\ UNCHANGED <<config, mainVars, log, files, present, scanVars>>

\* if NOTIFY and upload_status == 0
ShouldNotify == NOTIFY /\ upload_status = 0

\* subprocess.run(["curl", ...]); an exception of it is caught and printed
Notify ==
    /\ pc = "notify"
    /\ ShouldNotify
    /\ notified' = TRUE
    /\ steps' = Append(steps, "notify")
    /\ pc' = "retention"
    /\ UNCHANGED <<config, error, upload_status, log, files, present, scanVars>>

\* the condition is false: the block is skipped
SkipNotify ==
    /\ pc = "notify"
    /\ ~ShouldNotify
    /\ pc' = "retention"
    /\ UNCHANGED <<config, error, mainVars, log, files, present, scanVars>>

\* max_age_days = max(...); delete_old_files(BACKUP_DIR, max_age_days):
\* now_ts is read and os.walk enumerates the tree
ApplyRetention ==
    /\ pc = "retention"
    /\ max_days' = max_age_days
    /\ now_ts' = NowTs
    /\ walk' = Enumerate(1, Len(files))
    /\ pos' = 1
    /\ run' = 1
    /\ failed' = {}
    /\ start_present' = present
    /\ steps' = Append(steps, "retention")
    /\ pc' = "scan"
    /\ UNCHANGED <<config, error, upload_status, notified, log, files, present,
                   prev_end, prev_now_ts>>

\* the files whose unlink raised in the current call (they still exist), and
\* those unlinked whose Deleted line raised
UnlinkFailed == failed \cap present
LogFailed == failed \ present

Scanning == pc = "scan" /\ pos <= Len(walk)
Current == files[walk[pos]]

\* if file_path.suffix != ".zip": continue
SkipNonArchive ==
    /\ Scanning
    /\ ~IsArchive(Current)
    /\ pos' = pos + 1
    /\ UNCHANGED <<config, pc, error, mainVars, log, files, present, max_days,
                   now_ts, walk, run, failed, start_present, prev_end,
                   prev_now_ts>>

\* file_path.stat() raises (the file vanished, a dangling link, no permission):
\* the call is outside the try block
StatFails ==
    /\ Scanning
    /\ IsArchive(Current)
    /\ pc' = "crashed"
    /\ error' = "stat"
    /\ UNCHANGED <<config, mainVars, log, files, present, scanVars>>

\* age_days > max_days is false
KeepRecent ==
    /\ Scanning
    /\ IsArchive(Current)
    /\ ~IsOld(Current)
    /\ pos' = pos + 1
    /\ UNCHANGED <<config, pc, error, mainVars, log, files, present, max_days,
                   now_ts, walk, run, failed, start_present, prev_end,
                   prev_now_ts>>

\* file_path.unlink() and the Deleted line both succeed
DeleteLogged ==
    /\ Scanning
    /\ IsArchive(Current)
    /\ IsOld(Current)
    /\ present' = present \ {walk[pos]}
    /\ log' = Append(log, [kind |-> "Deleted", file |-> walk[pos]])
    /\ pos' = pos + 1
    /\ UNCHANGED <<config, pc, error, mainVars, files, max_days, now_ts, walk,
                   run, failed, start_present, prev_end, prev_now_ts>>

\* file_path.unlink() succeeds, the Deleted line raises: caught by the except
DeleteLogFails ==
    /\ Scanning
    /\ IsArchive(Current)
    /\ IsOld(Current)
    /\ present' = present \ {walk[pos]}
    /\ failed' = failed \cup {walk[pos]}
    /\ pos' = pos + 1
    /\ UNCHANGED <<config, pc, error, mainVars, log, files, max_days, now_ts,
                   walk, run, start_present, prev_end, prev_now_ts>>

\* file_path.unlink() raises: caught by the except
UnlinkFails ==
    /\ Scanning
    /\ IsArchive(Current)
    /\ IsOld(Current)
    /\ failed' = failed \cup {walk[pos]}
    /\ pos' = pos + 1
    /\ UNCHANGED <<config, pc, error, mainVars, log, files, present, max_days,
                   now_ts, walk, run, start_present, prev_end, prev_now_ts>>

\* the loops are exhausted: delete_old_files returns
FinishScan ==
    /\ pc = "scan"
    /\ pos > Len(walk)
    /\ pc' = "done"
    /\ UNCHANGED <<config, error, mainVars, log, files, present, scanVars>>

\* the process is killed while delete_old_files is scanning
Interrupt ==
    /\ pc = "scan"
    /\ pc' = "interrupted"
    /\ UNCHANGED <<config, error, mainVars, log, files, present, scanVars>>

\* how the call that just ended went: "clean" when it returned and no unlink
\* it attempted raised, "interrupted" when it ended part-way (killed, or by the
\* uncaught exception)
EndOfCall ==
    IF pc = "done" THEN (IF UnlinkFailed = {} THEN "clean" ELSE "partial")
    ELSE "interrupted"

\* delete_old_files(BACKUP_DIR, max_age_days) is called again on the same root,
\* by a later process: what the earlier process held in memory is gone, the
\* files and the configuration stay, the clock is read anew
Reinvoke ==
    /\ run >= 1
    /\ run < MaxRuns
    /\ pc \in {"done", "interrupted", "crashed"}
    /\ prev_end' = EndOfCall
    /\ prev_now_ts' = now_ts
    /\ \E dt \in ClockAdvance : now_ts' = now_ts + dt
    /\ walk' = Enumerate(1, Len(files))
    /\ pos' = 1
    /\ run' = run + 1
    /\ failed' = {}
    /\ start_present' = present
    /\ error' = "none"
    /\ pc' = "scan"
    /\ log' = <<>>
    /\ upload_status' = NotRun
    /\ notified' = FALSE
    /\ steps' = <<>>
    /\ UNCHANGED <<config, files, present, max_days>>

Next ==
    \/ CreateArchive
    \/ ArchiveFails
    \/ Upload
    \/ WriteLog
    \/ WriteLogFails
    \/ Notify
    \/ SkipNotify
    \/ ApplyRetention
    \/ SkipNonArchive
    \/ StatFails
    \/ KeepRecent
    \/ DeleteLogged
    \/ DeleteLogFails
    \/ UnlinkFails
    \/ FinishScan
    \/ Interrupt
    \/ Reinvoke

Spec == Init /\ [][Next]_vars

----------------------------------------------------------------------------
(* Vocabulary of the properties *)

All == 1 .. Len(files)
Zips == {i \in All : files[i].suffix = ArchiveSuffix}
Age(i) == now_ts - files[i].st_mtime
Cutoff == max_days * SecPerDay
Deleted == All \ present
Preexisting == SelectSeq(files, LAMBDA f : ~f.own)
RunOver == pc \in {"done", "crashed", "interrupted"}
Order == <<"archive", "upload", "log", "notify", "retention">>
OrderNoNotify == <<"archive", "upload", "log", "retention">>
IsPrefix(s, t) == Len(s) <= Len(t) /\ s = SubSeq(t, 1, Len(s))

----------------------------------------------------------------------------
(* C1: when a call of delete_old_files has returned and every unlink it    *)
(* attempted succeeded, the .zip files that survive are exactly those that *)
(* were there with age <= cutoff (age = cutoff included); with the default *)
(* windows and files aged 1, 8, 35 and 100 days only the 100-day file is   *)
(* deleted.                                                                *)
C1_SurvivorsExact ==
    (pc = "done" /\ UnlinkFailed = {}) =>
        /\ \A i \in start_present \cap Zips : i \in present <=> Age(i) <= Cutoff
        /\ (run = 1 /\ Preexisting = ScenarioFiles
              /\ Defaults(RETENTION_DAYS, RETENTION_WEEKS, RETENTION_MONTHS))
             => {NowTs - files[i].st_mtime : i \in Deleted} = {100 * SecPerDay}

C1_Witness ==
    /\ pc = "done" /\ run = 1 /\ UnlinkFailed = {}
    /\ \E i, j \in Zips : /\ Age(i) = Cutoff /\ i \in present
                          /\ Age(j) > Cutoff /\ j \notin present

(* C2: if the unlink of a candidate raises, the scan does not abort: the   *)
(* call returns, every other .zip file older than the cutoff is deleted    *)
(* and no file at or below the cutoff is.                                  *)
C2_UnlinkFailureIsolated ==
    (run >= 1 /\ pc \in {"done", "crashed"} /\ UnlinkFailed # {}) =>
        /\ pc = "done"
        /\ \A i \in start_present \cap Zips :
              /\ (Age(i) > Cutoff /\ i \notin UnlinkFailed) => i \notin present
              /\ Age(i) <= Cutoff => i \in present

(* C3: no file whose suffix is not .zip is ever deleted by the cleanup,    *)
(* whatever its age and the cutoff.                                        *)
C3_NonArchiveNeverDeleted ==
    \A i \in All : files[i].suffix # ArchiveSuffix => i \in present

C3_Witness ==
    /\ pc = "done"
    /\ \E i \in All \ Zips : Age(i) > Cutoff /\ i \in present
    /\ \E j \in Zips : j \notin present

(* C4: the notification is sent only when the upload exit code is 0 and    *)
(* NOTIFY is enabled, and a run that is over has sent it exactly when the  *)
(* upload exit code is 0 and NOTIFY is enabled.                            *)
C4_NotifyIff ==
    /\ notified => (NOTIFY /\ upload_status = 0)
    /\ RunOver => (notified <=> (NOTIFY /\ upload_status = 0))

(* C5: the steps happen in the order archive, upload, log, notification,   *)
(* retention, and a run that performed the upload and is over has run the  *)
(* retention cleanup, whatever the upload exit code.                       *)
C5_OrderAndRetention ==
    /\ IsPrefix(steps, Order) \/ IsPrefix(steps, OrderNoNotify)
    /\ (RunOver /\ upload_status # NotRun) => run >= 1

(* C6: no failure to append a line to the history log ends the run, and    *)
(* the scan moves on past a file whose Deleted line could not be written.  *)
C6_LogFailureNonFatal ==
    /\ error # "log"
    /\ \A i \in LogFailed : \E k \in 1 .. pos - 1 : walk[k] = i

C7_WitnessSecondRun ==
    /\ run = 2 /\ prev_end = "clean" /\ now_ts = prev_now_ts /\ pc = "done"
    /\ start_present # All
    /\ \E i \in start_present \cap Zips : TRUE

(* C8: the cutoff passed to delete_old_files is max(d, 7*w, 30*m), and     *)
(* raising any one window with the other two fixed never lowers it (the    *)
(* windows never change, so the comparison is made where the cutoff is     *)
(* passed).                                                                *)
C8_CutoffIsMax ==
    LET d == RETENTION_DAYS
        w == RETENTION_WEEKS
        m == RETENTION_MONTHS
    IN /\ run >= 1 =>
            /\ max_days \in {d, 7 * w, 30 * m}
            /\ max_days >= d /\ max_days >= 7 * w /\ max_days >= 30 * m
       /\ (run = 1 /\ pc = "scan" /\ pos = 1) =>
            /\ \A k \in d .. MaxWindow : MaxAge(k, w, m) >= max_days
            /\ \A k \in w .. MaxWindow : MaxAge(d, k, m) >= max_days
            /\ \A k \in m .. MaxWindow : MaxAge(d, w, k) >= max_days

C8_Witness ==
    /\ pc = "scan"
    /\ max_days = 30 * RETENTION_MONTHS
    /\ max_days > 7 * RETENTION_WEEKS
    /\ 7 * RETENTION_WEEKS > RETENTION_DAYS
    /\ RETENTION_DAYS > 0

(* C9: no error raised while a file is processed, the reading of its       *)
(* modification time included, ends the scan.                              *)
C9_PerFileErrorsCaught == error # "stat"

(* C10 as stated: whatever the windows, all three 0 included, the archive  *)
(* a run created less than a day before its retention scan is not deleted  *)
(* by that scan.                                                           *)
C10_OwnArchiveKept_AsStated ==
    \A i \in All :
        (files[i].own /\ run <= 1
           /\ NowTs - files[i].st_mtime > 0
           /\ NowTs - files[i].st_mtime < SecPerDay)
        => i \in present

(* C10 amended: when at least one window is positive, the archive a run    *)
(* created less than a day before its retention scan is not deleted by     *)
(* that scan.                                                              *)
C10_OwnArchiveKept ==
    \A i \in All :
        (files[i].own /\ run <= 1
           /\ (RETENTION_DAYS >= 1 \/ RETENTION_WEEKS >= 1 \/ RETENTION_MONTHS >= 1)
           /\ NowTs - files[i].st_mtime > 0
           /\ NowTs - files[i].st_mtime < SecPerDay)
        => i \in present

C10_Witness ==
    /\ pc = "done" /\ run = 1
    /\ max_days = 1
    /\ \E i \in All : /\ files[i].own
                      /\ NowTs - files[i].st_mtime = SecPerDay - 1
                      /\ i \in present
    /\ \E j \in Zips : j \notin present

====
